---------------------------- MODULE Spec2Model ----------------------------
(***************************************************************************)
(* mdfmt: the Markdown pipe-table formatter of src/format.rs.              *)
(*                                                                         *)
(* A text is a sequence of characters, each character a string.  The       *)
(* backtick is written "backtick".  Two characters stand for non-ASCII     *)
(* code points: "U+00E9" (e acute, two UTF-8 bytes, one terminal column)   *)
(* and "U+FF21" (fullwidth A, three UTF-8 bytes, two terminal columns).    *)
(***************************************************************************)
EXTENDS Integers, Sequences, FiniteSets, TLC

VARIABLES
    content,      \* format_content's argument
    strict,       \* format_content's argument
    chunks,       \* what content.split("```") has not yielded yet
    is_in_code,   \* format_content's local
    state,        \* format_content's local: the ParseState
    result,       \* format_content's local: the String returned
    lines,        \* format_chunk: what chunk.lines() has not yielded yet
    output,       \* format_chunk's local: the String it returns
    pc,           \* where format_content is
    warnings,     \* the line numbers written to stderr, in order
    consumed,     \* history: the lines fed to the state machine, in order
    trace,        \* history: the ParseState after each line fed
    call,         \* 1 in the first call, 2 when called again on its own output
    previous      \* the text the first call returned (call = 2)

vars == <<content, strict, chunks, is_in_code, state, result, lines, output,
          pc, warnings, consumed, trace, call, previous>>

----------------------------------------------------------------------------
(* Characters and the std / unicode-width functions the code calls.        *)

Pipe == "|"
Dash == "-"
Colon == ":"
\* the backtick (written out: the lexer takes no backtick in a string)
Tick == "backtick"
Space == " "
NL == "\n"
CR == "\r"
EAcute == "U+00E9"
WideA == "U+FF21"

Fence == <<Tick, Tick, Tick>>

\* char::len_utf8
ByteLen(c) == IF c = EAcute THEN 2 ELSE IF c = WideA THEN 3 ELSE 1

\* UnicodeWidthChar::width
CharWidth(c) == IF c = WideA THEN 2 ELSE 1

\* char::is_whitespace
IsWhitespace(c) == c \in {Space, NL, CR}

RECURSIVE StrLen(_)
\* str::len: the length in bytes
StrLen(s) == IF s = <<>> THEN 0 ELSE ByteLen(Head(s)) + StrLen(Tail(s))

RECURSIVE StrWidth(_)
\* UnicodeWidthStr::width
StrWidth(s) == IF s = <<>> THEN 0 ELSE CharWidth(Head(s)) + StrWidth(Tail(s))

RECURSIVE TrimStart(_)
TrimStart(s) ==
    IF s # <<>> /\ IsWhitespace(Head(s)) THEN TrimStart(Tail(s)) ELSE s

RECURSIVE TrimEnd(_)
TrimEnd(s) ==
    IF s # <<>> /\ IsWhitespace(s[Len(s)])
    THEN TrimEnd(SubSeq(s, 1, Len(s) - 1))
    ELSE s

\* str::trim
Trim(s) == TrimEnd(TrimStart(s))

\* str::starts_with(char), str::ends_with(char)
StartsWith(s, c) == s # <<>> /\ Head(s) = c
EndsWith(s, c) == s # <<>> /\ s[Len(s)] = c

\* pat is a prefix of s
HasPrefix(s, pat) == Len(s) >= Len(pat) /\ SubSeq(s, 1, Len(pat)) = pat

RECURSIVE SplitFrom(_, _, _)
\* str::split(pat) from the left, with cur the piece being read
SplitFrom(s, pat, cur) ==
    IF s = <<>> THEN <<cur>>
    ELSE IF HasPrefix(s, pat)
         THEN <<cur>> \o SplitFrom(SubSeq(s, Len(pat) + 1, Len(s)), pat, <<>>)
         ELSE SplitFrom(Tail(s), pat, Append(cur, Head(s)))

\* str::split(pat): leftmost, non-overlapping matches; n matches give n+1 pieces
Split(s, pat) == SplitFrom(s, pat, <<>>)

\* str::split_terminator(pat): split, with a last empty piece dropped
SplitTerminator(s, pat) ==
    LET p == Split(s, pat)
    IN  IF p[Len(p)] = <<>> THEN SubSeq(p, 1, Len(p) - 1) ELSE p

\* str::lines: split at "\n", a last empty piece dropped; a line ended by "\r\n"
\* loses the "\r" too
Lines(s) ==
    LET all == Split(s, <<NL>>)
        p == SplitTerminator(s, <<NL>>)
    IN  [i \in 1..Len(p) |->
            IF i < Len(all) /\ EndsWith(p[i], CR)
            THEN SubSeq(p[i], 1, Len(p[i]) - 1)
            ELSE p[i]]

\* "x".repeat(n)
Repeat(c, n) == [i \in 1..n |-> c]

RECURSIVE Concat(_)
\* the texts of a sequence, one after the other
Concat(ss) == IF ss = <<>> THEN <<>> ELSE Head(ss) \o Concat(Tail(ss))

\* the number of elements of s that equal c
Count(s, c) == Cardinality({i \in 1..Len(s) : s[i] = c})

\* the maximum of a non-empty set of numbers
Max(S) == CHOOSE m \in S : \A n \in S : n <= m

----------------------------------------------------------------------------
(* The data model: TableAlignment, TableColumn, Table, ParseState.         *)

TableAlignment == {"None", "Left", "Center", "Right"}

TableColumn(alignment, column_lines) ==
    [alignment |-> alignment, lines |-> column_lines]

Table(columns) == [columns |-> columns]

RegularText == [tag |-> "RegularText"]

CheckingHeader(source_header, headers) ==
    [tag |-> "CheckingHeader", source_header |-> source_header, headers |-> headers]

ReadingTable(source_table, table) ==
    [tag |-> "ReadingTable", source_table |-> source_table, table |-> table]

\* ParseState::new
ParseState_new == RegularText

----------------------------------------------------------------------------
(* The renderer.  A fault is a Rust panic: it aborts format_content.       *)

\* pad_cell_content, given padded: width + 2 - padded.width() is an unsigned subtraction
pad_to(padded, width) ==
    IF width + 2 - StrWidth(padded) < 0
    THEN [fault |-> TRUE, text |-> padded]
    ELSE [fault |-> FALSE,
          text |-> padded \o Repeat(Space, width + 2 - StrWidth(padded))]

\* pad_cell_content
pad_cell_content(elem, width) == pad_to(<<Space>> \o Trim(elem), width)

\* widest without the floor of 1
widest_unfloored(cells) ==
    IF cells = <<>> THEN -1
    ELSE Max({StrWidth(cells[i]) : i \in 1..Len(cells)})

\* max(1) of the widest cell; max() of no cell is None, and unwrap() faults
widest(cells) ==
    IF cells = <<>> THEN -1
    ELSE IF \E i \in 1..Len(cells) : StrWidth(cells[i]) > 1
         THEN Max({StrWidth(cells[i]) : i \in 1..Len(cells)})
         ELSE 1

\* Table::write_output's column_widths
column_widths(table) ==
    [c \in 1..Len(table.columns) |-> widest(table.columns[c].lines)]

\* a row of padded cells between pipes
join_row(cells) ==
    [fault |-> \E c \in 1..Len(cells) : cells[c].fault,
     text |-> <<Pipe>>
              \o Concat([c \in 1..Len(cells) |-> cells[c].text \o <<Pipe>>])
              \o <<NL>>]

\* Table::write_output_line, for the 1-based row index; column.lines[index] faults
\* past the end of the column
write_output_line(table, widths, index) ==
    join_row([c \in 1..Len(table.columns) |->
                 IF index > Len(table.columns[c].lines)
                 THEN [fault |-> TRUE, text |-> <<>>]
                 ELSE pad_cell_content(table.columns[c].lines[index], widths[c])])

\* Table::write_subhead_line, one column
subhead_cell(alignment, width) ==
    <<IF alignment \in {"Left", "Center"} THEN Colon ELSE Dash>>
    \o Repeat(Dash, width)
    \o <<IF alignment \in {"Right", "Center"} THEN Colon ELSE Dash>>
    \o <<Pipe>>

\* Table::write_subhead_line
write_subhead_line(table, widths) ==
    <<Pipe>>
    \o Concat([c \in 1..Len(table.columns) |->
                  subhead_cell(table.columns[c].alignment, widths[c])])
    \o <<NL>>

\* join_rows with the sub-header line left out
join_rows_no_subhead(rows, subhead) ==
    [fault |-> \E i \in 1..Len(rows) : rows[i].fault,
     text |-> Concat([i \in 1..Len(rows) |-> rows[i].text])]

\* Table::write_output, given its rows: the header, the sub-header, the body
join_rows(rows, subhead) ==
    [fault |-> \E i \in 1..Len(rows) : rows[i].fault,
     text |-> rows[1].text \o subhead
              \o Concat([i \in 1..(Len(rows) - 1) |-> rows[i + 1].text])]

\* Table::write_output, given column_widths
write_rows(table, widths) ==
    join_rows([i \in 1..Len(table.columns[1].lines) |->
                  write_output_line(table, widths, i)],
              write_subhead_line(table, widths))

\* Table::write_output: what it appends to its argument, or a fault
\* (self.columns[0] of no column, max().unwrap() of no cell)
write_output(table) ==
    IF table.columns = <<>>
       \/ \E c \in 1..Len(table.columns) : table.columns[c].lines = <<>>
    THEN [fault |-> TRUE, text |-> <<>>]
    ELSE write_rows(table, column_widths(table))

----------------------------------------------------------------------------
(* The line classifier and the three handlers of the state machine.        *)

\* clean.starts_with('|') && clean.ends_with('|')
IsPipeRow(clean) == StartsWith(clean, Pipe) /\ EndsWith(clean, Pipe)

\* clean[1..].split_terminator('|').map(|header| header.trim().to_string())
Fields(clean) ==
    LET p == SplitTerminator(Tail(clean), <<Pipe>>)
    IN  [i \in 1..Len(p) |-> Trim(p[i])]

\* header_candidate with a row of no field taken for a header
header_candidate_unchecked(line, headers) == CheckingHeader(line, headers)

\* process_regular_text, given the fields
header_candidate(line, headers) ==
    IF headers = <<>> THEN RegularText ELSE CheckingHeader(line, headers)

\* process_regular_text
process_regular_text(line) ==
    IF ~IsPipeRow(Trim(line)) THEN RegularText
    ELSE header_candidate(line, Fields(Trim(line)))

\* process_header lines 167-173: what is left of sub once its markers are cut.
\* Line 171 tests align_left a second time, so the last byte goes when sub
\* starts with ':'; "fault" when that cut is not on a character boundary.
dashes_of(sub) ==
    IF ~StartsWith(sub, Colon) THEN sub
    ELSE IF Len(sub) < 2 \/ ByteLen(sub[Len(sub)]) > 1 THEN "fault"
    ELSE SubSeq(sub, 2, Len(sub) - 1)

\* process_header lines 181-186
alignment_of(align_left, align_right) ==
    IF align_left /\ align_right THEN "Center"
    ELSE IF align_left THEN "Left"
    ELSE IF align_right THEN "Right"
    ELSE "None"

\* process_header lines 174-186, given dashes
check_dashes(sub, dashes) ==
    IF dashes = "fault" THEN "fault"
    ELSE IF \E i \in 1..Len(dashes) : dashes[i] # Dash THEN "notdash"
    ELSE alignment_of(StartsWith(sub, Colon), EndsWith(sub, Colon))

\* process_header lines 160-186, given sub
check_sub(sub) ==
    IF StrLen(sub) < 3 THEN "short" ELSE check_dashes(sub, dashes_of(sub))

\* process_header, the body of its loop for one sub-header cell:
\* "short", "fault", "notdash", or the column's alignment
sub_header(raw_sub) == check_sub(Trim(raw_sub))

\* process_header's three returns of RegularText
header_rejected(out, source_header) ==
    [state |-> RegularText, output |-> out \o source_header \o <<NL>>, fault |-> FALSE]

\* process_header lines 157-198, given what the loop finds for each cell; the
\* first cell that is no alignment ends the loop
header_columns(line, out, source_header, headers, cell) ==
    IF \E i \in 1..Len(cell) :
          /\ cell[i] = "fault"
          /\ \A j \in 1..(i - 1) : cell[j] \in TableAlignment
    THEN [state |-> CheckingHeader(source_header, headers), output |-> out,
          fault |-> TRUE]
    ELSE IF \E i \in 1..Len(cell) : cell[i] \notin TableAlignment
    THEN header_rejected(out, source_header)
    ELSE [state |-> ReadingTable(
                       <<source_header, line>>,
                       Table([i \in 1..Len(headers) |->
                                 TableColumn(cell[i], <<headers[i]>>)])),
          output |-> out,
          fault |-> FALSE]

\* process_header lines 151-198, given sub_headers
header_fields(line, out, source_header, headers, sub_headers) ==
    IF Len(sub_headers) # Len(headers) THEN header_rejected(out, source_header)
    ELSE header_columns(line, out, source_header, headers,
                        [i \in 1..Len(sub_headers) |-> sub_header(sub_headers[i])])

\* process_header
process_header(line, out, source_header, headers) ==
    IF ~IsPipeRow(Trim(line)) THEN header_rejected(out, source_header)
    ELSE header_fields(line, out, source_header, headers, Fields(Trim(line)))

\* process_table lines 203-206, given what write_output appends
table_ended(out, source_table, table, w) ==
    [state |-> IF w.fault THEN ReadingTable(source_table, table) ELSE RegularText,
     output |-> out \o w.text,
     warnings |-> <<>>,
     fault |-> w.fault]

\* table_broken with the rows read after the separator left out of the rollback
table_broken_head_only(out, source_table, strict_flag) ==
    [state |-> RegularText,
     output |-> out \o source_table[1] \o <<NL>> \o source_table[2] \o <<NL>>,
     warnings |-> IF strict_flag THEN <<1 + Count(out, NL)>> ELSE <<>>,
     fault |-> FALSE]

\* table_broken with the warning written to the output instead of stderr
table_broken_noisy(out, source_table, strict_flag) ==
    [state |-> RegularText,
     output |-> out \o (IF strict_flag THEN <<"x", NL>> ELSE <<>>)
                   \o Concat([i \in 1..Len(source_table) |->
                                 source_table[i] \o <<NL>>]),
     warnings |-> IF strict_flag THEN <<1 + Count(out, NL)>> ELSE <<>>,
     fault |-> FALSE]

\* process_table lines 209-219: the broken table; warnings are the line numbers
\* written to stderr
table_broken(out, source_table, strict_flag) ==
    [state |-> RegularText,
     output |-> out \o Concat([i \in 1..Len(source_table) |->
                                  source_table[i] \o <<NL>>]),
     warnings |-> IF strict_flag THEN <<1 + Count(out, NL)>> ELSE <<>>,
     fault |-> FALSE]

\* table_row with the row's fields pushed to the first column only
table_row_first_column(line, out, source_table, table, columns) ==
    [state |-> ReadingTable(
                  Append(source_table, line),
                  Table([c \in 1..Len(table.columns) |->
                            TableColumn(table.columns[c].alignment,
                                        IF c = 1
                                        THEN Append(table.columns[c].lines, columns[c])
                                        ELSE table.columns[c].lines)])),
     output |-> out,
     warnings |-> <<>>,
     fault |-> FALSE]

\* process_table lines 221-234: a row is added
table_row(line, out, source_table, table, columns) ==
    [state |-> ReadingTable(
                  Append(source_table, line),
                  Table([c \in 1..Len(table.columns) |->
                            TableColumn(table.columns[c].alignment,
                                        Append(table.columns[c].lines, columns[c]))])),
     output |-> out,
     warnings |-> <<>>,
     fault |-> FALSE]

\* process_table lines 208-234, given columns
table_fields(line, out, source_table, table, strict_flag, columns) ==
    IF Len(columns) # Len(table.columns)
    THEN table_broken(out, source_table, strict_flag)
    ELSE table_row(line, out, source_table, table, columns)

\* process_table
process_table(line, out, source_table, table, strict_flag) ==
    IF ~IsPipeRow(Trim(line))
    THEN table_ended(out, source_table, table, write_output(table))
    ELSE table_fields(line, out, source_table, table, strict_flag, Fields(Trim(line)))

\* format_chunk lines 112-116: the handler of the state
handle_line(line, st, out, strict_flag) ==
    CASE st.tag = "RegularText" ->
            [state |-> process_regular_text(line), output |-> out,
             warnings |-> <<>>, fault |-> FALSE]
      [] st.tag = "CheckingHeader" ->
            [warnings |-> <<>>] @@ process_header(line, out, st.source_header, st.headers)
      [] st.tag = "ReadingTable" ->
            process_table(line, out, st.source_table, st.table, strict_flag)

\* format_chunk lines 118-121: in RegularText the line is written out
push_line(line, r) ==
    IF ~r.fault /\ r.state.tag = "RegularText"
    THEN [r EXCEPT !.output = r.output \o line \o <<NL>>]
    ELSE r

\* format_chunk, the body of its loop for one line
format_line(line, st, out, strict_flag) ==
    push_line(line, handle_line(line, st, out, strict_flag))

----------------------------------------------------------------------------
(* format_chunk and format_content as functions of their arguments.  A run *)
(* is a record: the ParseState, the text written, the warnings, the states *)
(* passed through, and whether a fault ended it.                           *)

\* format_chunk's loop: run is the run so far, r what the loop's body did with a line
after_line(run, r) ==
    [state |-> r.state, output |-> r.output, fault |-> r.fault,
     warnings |-> run.warnings \o r.warnings,
     states |-> Append(run.states, r.state)]

RECURSIVE format_lines(_, _, _)
\* format_chunk lines 111-122: the loop over the lines left
format_lines(left, run, strict_flag) ==
    IF left = <<>> \/ run.fault THEN run
    ELSE format_lines(Tail(left),
                      after_line(run, format_line(Head(left), run.state, run.output,
                                                  strict_flag)),
                      strict_flag)

\* format_chunk
format_chunk(chunk, st, strict_flag) ==
    format_lines(Lines(chunk),
                 [state |-> st, output |-> <<>>, fault |-> FALSE,
                  warnings |-> <<>>, states |-> <<>>],
                 strict_flag)

\* format_content line 95: the chunk's output is appended to the result
after_chunk(run, c) ==
    [state |-> c.state, result |-> run.result \o c.output, fault |-> c.fault,
     warnings |-> run.warnings \o c.warnings,
     states |-> run.states \o c.states]

RECURSIVE format_chunks(_, _, _, _)
\* format_content lines 88-96: the loop over the chunks left; in_code is
\* is_in_code as the iteration starts
format_chunks(left, in_code, run, strict_flag) ==
    IF left = <<>> \/ run.fault THEN run
    ELSE IF ~in_code
    THEN format_chunks(Tail(left), TRUE,
                       [run EXCEPT !.result = run.result \o Fence \o Head(left) \o Fence],
                       strict_flag)
    ELSE format_chunks(Tail(left), FALSE,
                       after_chunk(run, format_chunk(Head(left), run.state, strict_flag)),
                       strict_flag)

\* flush with the header line of CheckingHeader left out
flush_table_only(st) ==
    IF st.tag = "ReadingTable" THEN write_output(st.table)
    ELSE [fault |-> FALSE, text |-> <<>>]

\* lines 98-102: what the flush after the loop appends, or a fault
flush(st) ==
    IF st.tag = "CheckingHeader"
    THEN [fault |-> FALSE, text |-> st.source_header \o <<NL>>]
    ELSE IF st.tag = "ReadingTable" THEN write_output(st.table)
    ELSE [fault |-> FALSE, text |-> <<>>]

\* format_content lines 98-104, given what the flush appends
after_flush(run, f) ==
    IF run.fault THEN run
    ELSE [run EXCEPT !.result = run.result \o f.text, !.fault = f.fault]

\* format_content lines 98-104
flushed(run) == after_flush(run, flush(run.state))

\* format_content: fault is a panic, otherwise Ok(result)
format_content(text, strict_flag) ==
    flushed(format_chunks(Split(text, Fence), TRUE,
                          [state |-> ParseState_new, result |-> <<>>, fault |-> FALSE,
                           warnings |-> <<>>, states |-> <<>>],
                          strict_flag))

----------------------------------------------------------------------------
(* The documents format_content is called on.                              *)

\* the longest document, in pieces
MaxPieces == 4

Header1 == <<Pipe, "a", Pipe, NL>>
Separator1 == <<Pipe, Dash, Dash, Dash, Pipe, NL>>
Header2 == <<Pipe, "a", Pipe, "b", "b", Pipe, NL>>
Separator2 == <<Pipe, Colon, Dash, Colon, Pipe, Colon, Dash, Dash, Pipe, NL>>

\* table lines of one and of two fields, text, a line end, a fence, a lone backtick
Pieces == {Header1, Separator1, Header2, Separator2, <<"x">>, <<NL>>, Fence, <<Tick>>}

Documents ==
    UNION {{Concat(t) : t \in [1..n -> Pieces]} : n \in 0..MaxPieces}

----------------------------------------------------------------------------
(* Documents that open with a header row and a candidate separator row,    *)
(* the separator's cells drawn from every marker and body combination.     *)

\* the widest table of these documents, in columns
MaxColumns == 2

\* what stands between the markers of a separator cell
Bodies == {<<Dash>>, <<Dash, Dash>>, <<Dash, Dash, Dash>>, <<Dash, "x">>,
           <<Dash, EAcute>>, <<EAcute>>}

Markers == {<<>>, <<Colon>>}

SeparatorCells == {lead \o body \o trail : lead \in Markers, body \in Bodies, trail \in Markers}

\* a pipe row of the cells
Row(cells) == <<Pipe>> \o Concat([i \in 1..Len(cells) |-> cells[i] \o <<Pipe>>]) \o <<NL>>

\* what follows the separator row: nothing, or a body row and a fenced span
Tails(n) == {<<>>, Row([i \in 1..n |-> <<"1">>]) \o Fence \o <<"x">> \o Fence}

SeparatorDocuments ==
    UNION {{Row([i \in 1..n |-> <<"a">>]) \o Row(cells) \o tail :
               cells \in [1..n -> SeparatorCells], tail \in Tails(n)} :
           n \in 1..MaxColumns}

----------------------------------------------------------------------------
(* Documents of table lines: header rows, a separator row, rows with       *)
(* cells of other widths, lines that are no rows, and a fenced span that   *)
(* holds a line end; with and without a line end after the last line.      *)

\* the longest of these documents, in lines
MaxLines == 4

Row1 == <<Pipe, "a", Pipe>>
RowWide == <<Pipe, WideA, Pipe, Pipe>>
RowPadded == <<Pipe, Space, "a", Pipe, "b", "b", Space, Pipe>>
RowSeparator == <<Pipe, Colon, Dash, Colon, Pipe, Dash, Dash, Dash, Pipe>>
CodeBlock == Fence \o <<NL>> \o Fence

\* a row of one field; rows of two fields, one with a wide and an empty cell, one
\* with blanks around its cells; their separator row; a lone pipe; text; a fenced span
TableLineKinds == {Row1, RowWide, RowPadded, RowSeparator, <<Pipe>>, <<"x">>, CodeBlock}

\* the lines with a line end between them
JoinWith(ls) ==
    Concat([i \in 1..Len(ls) |-> IF i < Len(ls) THEN ls[i] \o <<NL>> ELSE ls[i]])

TableDocuments ==
    UNION {{JoinWith(t) \o e : t \in [1..n -> TableLineKinds], e \in {<<>>, <<NL>>}} :
           n \in 1..MaxLines}

----------------------------------------------------------------------------
(* format_content as a state machine: one step per chunk of the split, one *)
(* per line of a prose chunk, one when format_chunk returns, one for the    *)
(* flush after the loop.                                                   *)

\* the state a call of format_content starts in (lines 84-87)
Entry(text, strict_flag, n, prev) ==
    /\ content = text
    /\ strict = strict_flag
    /\ chunks = Split(text, Fence)
    /\ is_in_code = TRUE
    /\ state = ParseState_new
    /\ result = <<>>
    /\ lines = <<>>
    /\ output = <<>>
    /\ pc = "chunk"
    /\ warnings = <<>>
    /\ consumed = <<>>
    /\ trace = <<>>
    /\ call = n
    /\ previous = prev

Init == \E d \in Documents, s \in BOOLEAN : Entry(d, s, 1, <<>>)

\* CodeChunk with the fenced span handed to format_chunk like prose
CodeChunkAsProse ==
    /\ pc = "chunk" /\ chunks # <<>> /\ ~is_in_code
    /\ is_in_code' = TRUE
    /\ lines' = Lines(Head(chunks))
    /\ output' = Fence
    /\ chunks' = Tail(chunks)
    /\ pc' = "line"
    /\ UNCHANGED <<content, strict, state, result, warnings, consumed, trace,
                   call, previous>>

\* lines 88-93: the chunk is inside a code block
CodeChunk ==
    /\ pc = "chunk" /\ chunks # <<>> /\ ~is_in_code
    /\ is_in_code' = TRUE
    /\ result' = result \o Fence \o Head(chunks) \o Fence
    /\ chunks' = Tail(chunks)
    /\ UNCHANGED <<content, strict, state, lines, output, pc, warnings,
                   consumed, trace, call, previous>>

\* lines 88-95 and 108-111: the chunk is prose, format_chunk is entered
ProseChunk ==
    /\ pc = "chunk" /\ chunks # <<>> /\ is_in_code
    /\ is_in_code' = FALSE
    /\ lines' = Lines(Head(chunks))
    /\ output' = <<>>
    /\ chunks' = Tail(chunks)
    /\ pc' = "line"
    /\ UNCHANGED <<content, strict, state, result, warnings, consumed, trace,
                   call, previous>>

\* lines 111-122: one line of the chunk goes through format_chunk's loop
NextLine ==
    /\ pc = "line" /\ lines # <<>>
    /\ \E r \in {format_line(Head(lines), state, output, strict)} :
           /\ state' = r.state
           /\ output' = r.output
           /\ warnings' = warnings \o r.warnings
           /\ pc' = IF r.fault THEN "panicked" ELSE "line"
           /\ trace' = Append(trace, r.state)
    /\ consumed' = Append(consumed, Head(lines))
    /\ lines' = Tail(lines)
    /\ UNCHANGED <<content, strict, chunks, is_in_code, result, call, previous>>

\* line 113: the line reaches process_regular_text
RegularTextLine == state.tag = "RegularText" /\ NextLine

\* line 114: the line reaches process_header
CheckingHeaderLine == state.tag = "CheckingHeader" /\ NextLine

\* line 115: the line reaches process_table
ReadingTableLine == state.tag = "ReadingTable" /\ NextLine

\* lines 124 and 95: format_chunk returns, its output is appended to the result
ChunkReturn ==
    /\ pc = "line" /\ lines = <<>>
    /\ result' = result \o output
    /\ output' = <<>>
    /\ pc' = "chunk"
    /\ UNCHANGED <<content, strict, chunks, is_in_code, state, lines, warnings,
                   consumed, trace, call, previous>>

\* lines 98-104: the end of the document
Flush ==
    /\ pc = "chunk" /\ chunks = <<>>
    /\ \E f \in {flush(state)} :
           /\ result' = result \o f.text
           /\ pc' = IF f.fault THEN "panicked" ELSE "done"
    /\ UNCHANGED <<content, strict, chunks, is_in_code, state, lines, output,
                   warnings, consumed, trace, call, previous>>

\* the caller formats the text it got back a second time
CallAgain ==
    /\ pc = "done" /\ call = 1
    /\ content' = result
    /\ chunks' = Split(result, Fence)
    /\ is_in_code' = TRUE
    /\ state' = ParseState_new
    /\ result' = <<>>
    /\ lines' = <<>>
    /\ output' = <<>>
    /\ pc' = "chunk"
    /\ warnings' = <<>>
    /\ consumed' = <<>>
    /\ trace' = <<>>
    /\ call' = 2
    /\ previous' = result
    /\ UNCHANGED strict

Next ==
    \/ CodeChunk
    \/ ProseChunk
    \/ RegularTextLine
    \/ CheckingHeaderLine
    \/ ReadingTableLine
    \/ ChunkReturn
    \/ Flush
    \/ CallAgain

Spec == Init /\ [][Next]_vars

InitSeparators == \E d \in SeparatorDocuments, s \in BOOLEAN : Entry(d, s, 1, <<>>)

SeparatorSpec == InitSeparators /\ [][Next]_vars

InitTables == \E d \in TableDocuments, s \in BOOLEAN : Entry(d, s, 1, <<>>)

TableSpec == InitTables /\ [][Next]_vars

----------------------------------------------------------------------------
(* What the claims are stated with.                                        *)

\* the lines, each ended by a newline
JoinLines(ls) == Concat([i \in 1..Len(ls) |-> ls[i] \o <<NL>>])

\* the line the loop of format_chunk is about to take
ThisLine == Head(lines)

\* format_chunk is about to take a line
AtLine == pc = "line" /\ lines # <<>>

\* a pipe-row candidate: bounded by pipes once trimmed, with at least one field
IsCandidate(line) == IsPipeRow(Trim(line)) /\ Fields(Trim(line)) # <<>>

\* the number of fences of a text, and the indices of the chunks that lie
\* between an opening fence and its closing fence
FenceCount(text) == Len(Split(text, Fence)) - 1
MatchedSpans(text) == {j \in 1..FenceCount(text) : j % 2 = 0}

\* the line is a candidate whose field count is not the column count of the table
TableBrokenBy(line, st) ==
    /\ st.tag = "ReadingTable"
    /\ IsCandidate(line)
    /\ Len(Fields(Trim(line))) # Len(st.table.columns)

----------------------------------------------------------------------------
(* C1  Fence transparency.  When format_content has returned, every span   *)
(* between an opening fence and its closing fence is in the result as it   *)
(* is in the document, fences included, in the same place among the        *)
(* fenced spans; and the step that takes such a span appends exactly the   *)
(* span between two fences, feeds no line to the state machine and leaves  *)
(* the parser state as it was.                                             *)

SpansPreserved ==
    pc = "done" =>
        \A j \in MatchedSpans(content) :
            /\ j \in MatchedSpans(result)
            /\ Split(result, Fence)[j] = Split(content, Fence)[j]

SpanStep ==
    (pc = "chunk" /\ ~is_in_code /\ Len(chunks) >= 2 /\ chunks' # chunks) =>
        /\ state' = state
        /\ consumed' = consumed
        /\ result' = result \o Fence \o Head(chunks) \o Fence

\* C1: every matched fenced span is returned unchanged with its fences, and the
\* step that takes it feeds the state machine nothing and leaves the parser state
FenceTransparency == []SpansPreserved /\ [][SpanStep]_vars

\* C1, reached: a fenced span holding a header row and a separator row came back
\* unchanged, and no line was fed to the state machine
FencedTableReturned ==
    /\ pc = "done"
    /\ content = Fence \o Header1 \o Separator1 \o Fence
    /\ result = content
    /\ consumed = <<>>

(* C2  An odd number of fences.  The claim: the result then holds no       *)
(* closing fence the document did not hold, so it has as many backticks    *)
(* as the document.  Line 91 closes every odd chunk, the last one too.     *)

\* C2, as claimed: with an odd number of fences the result has the backticks of
\* the document and no more
OddFencesAddNothing ==
    (pc = "done" /\ FenceCount(content) % 2 = 1) =>
        Count(result, Tick) = Count(content, Tick)

(* C3  Pass-through for non-tables.  The claim, for the documents with an  *)
(* even number of fences, where line 91 adds no fence: with no line that   *)
(* is bounded by pipes, the result is the document, but for a newline at   *)
(* its end.  A fence in the middle of a line ends a chunk, and line 120    *)
(* ends the chunk's last line with a newline.                              *)

NoPipeRow(text) == \A i \in 1..Len(Lines(text)) : ~IsPipeRow(Trim(Lines(text)[i]))

\* C3, as claimed: a document with no pipe-bounded line (and an even number of
\* fences) is returned unchanged but for a newline at its end
PassThroughNonTables ==
    (pc = "done" /\ FenceCount(content) % 2 = 0 /\ NoPipeRow(content)) =>
        result \in {content, content \o <<NL>>}

(* C4  Idempotence.  The claim: format_content called on what it returned  *)
(* returns it again.                                                       *)

\* C4, as claimed: the second call returns what the first returned
Idempotence == (pc = "done" /\ call = 2) => result = previous

(* C5  Alignment is recognised and preserved.  The claim: a row with the   *)
(* header's field count whose cells all are separator cells makes the      *)
(* header a table, each column aligned as its cell's markers say, and the  *)
(* rendered separator carries those markers.                               *)

\* length >= 3, an optional ':' at each end, '-' between
IsSeparatorCell(cell) ==
    /\ Len(cell) >= 3
    /\ \A i \in 1..Len(cell) :
          \/ cell[i] = Dash
          \/ cell[i] = Colon /\ i \in {1, Len(cell)}

ClaimedAlignment(cell) ==
    IF StartsWith(cell, Colon) /\ EndsWith(cell, Colon) THEN "Center"
    ELSE IF StartsWith(cell, Colon) THEN "Left"
    ELSE IF EndsWith(cell, Colon) THEN "Right"
    ELSE "None"

\* the cells of the separator row the table renders
RenderedSeparator(table) ==
    Fields(Trim(write_subhead_line(table, column_widths(table))))

AlignmentStep ==
    (/\ AtLine /\ state.tag = "CheckingHeader"
     /\ IsCandidate(ThisLine)
     /\ Len(Fields(Trim(ThisLine))) = Len(state.headers)
     /\ \A i \in 1..Len(state.headers) : IsSeparatorCell(Fields(Trim(ThisLine))[i]))
    => /\ state'.tag = "ReadingTable"
       /\ \A c \in 1..Len(state.headers) :
             /\ state'.table.columns[c].alignment
                    = ClaimedAlignment(Fields(Trim(ThisLine))[c])
             /\ StartsWith(RenderedSeparator(state'.table)[c], Colon)
                    <=> ClaimedAlignment(Fields(Trim(ThisLine))[c]) \in {"Left", "Center"}
             /\ EndsWith(RenderedSeparator(state'.table)[c], Colon)
                    <=> ClaimedAlignment(Fields(Trim(ThisLine))[c]) \in {"Right", "Center"}

\* C5, as claimed: a row of separator cells is accepted and each column gets the
\* alignment of its markers
AlignmentRecognised == [][AlignmentStep]_vars

(* C6  A column-count mismatch rolls the table back.  In ReadingTable, a   *)
(* candidate whose field count is not the column count makes the state     *)
(* RegularText and appends to the output the lines the table was read      *)
(* from, as the document has them - the header, the separator, the rows -  *)
(* and then the mismatching line; nothing else.                            *)

\* the lines of the document the table in st was read from
TableLines(st) ==
    SubSeq(consumed, Len(consumed) - Len(st.table.columns[1].lines), Len(consumed))

MismatchStep ==
    (AtLine /\ TableBrokenBy(ThisLine, state)) =>
        /\ pc' = "line"
        /\ state'.tag = "RegularText"
        /\ output' = output \o JoinLines(TableLines(state)) \o ThisLine \o <<NL>>

\* C6: a field-count mismatch in ReadingTable writes out the lines the table was
\* read from and then the mismatching line, and the state becomes RegularText
MismatchRollsBack == [][MismatchStep]_vars

\* C6, reached: a table with a body row has just been rolled back
MismatchRolledBack ==
    /\ pc = "line" /\ Len(trace) >= 2
    /\ state.tag = "RegularText"
    /\ trace[Len(trace) - 1].tag = "ReadingTable"
    /\ Len(trace[Len(trace) - 1].source_table) >= 3
    /\ TableBrokenBy(consumed[Len(consumed)], trace[Len(trace) - 1])

(* C7  The line that ends a candidate is classified again.  The claim: a   *)
(* candidate line that makes process_header give the header up, or that    *)
(* breaks a table by its field count, is the header held in CheckingHeader *)
(* after the step.  Lines 112-121 write it out in RegularText instead.     *)

EndingLineStep ==
    (/\ AtLine /\ pc' = "line"
     /\ IsCandidate(ThisLine)
     /\ \/ state.tag = "CheckingHeader" /\ state'.tag # "ReadingTable"
        \/ TableBrokenBy(ThisLine, state))
    => state' = CheckingHeader(ThisLine, Fields(Trim(ThisLine)))

\* C7, as claimed: the candidate line that ends a header or breaks a table is the
\* header held in CheckingHeader after the step
EndingLineReclassified == [][EndingLineStep]_vars

(* C8  Strict mode never changes the returned text.  A call that has       *)
(* ended has returned the text, passed through the states and ended the    *)
(* way the call with the other value of strict does.                       *)

\* C8: the call with the other value of strict returns the same text, passes
\* through the same parser states and ends the same way
StrictNeverChangesText ==
    pc \in {"done", "panicked"} =>
        /\ format_content(content, ~strict).fault = (pc = "panicked")
        /\ pc = "done" =>
              /\ format_content(content, ~strict).result = result
              /\ format_content(content, ~strict).states = trace

\* C8, reached: a strict call has returned after a warning that the call without
\* strict does not give
StrictCallWarned ==
    /\ pc = "done" /\ strict /\ warnings # <<>>
    /\ format_content(content, FALSE).warnings = <<>>

(* C9  The core never fails.  The claim: no call panics.                   *)

\* C9, as claimed: format_content never panics
NeverFails == pc # "panicked"

(* C10  A rejected header falls back to verbatim text.  The claim: in      *)
(* CheckingHeader, a line that is no pipe row, or has another field count  *)
(* than the header, or has a cell of fewer than 3 characters, makes no     *)
(* table: the header line and then the line are appended to the output.    *)

RejectedHeaderStep ==
    (/\ AtLine /\ state.tag = "CheckingHeader"
     /\ \/ ~IsPipeRow(Trim(ThisLine))
        \/ Len(Fields(Trim(ThisLine))) # Len(state.headers)
        \/ \E i \in 1..Len(Fields(Trim(ThisLine))) : Len(Fields(Trim(ThisLine))[i]) < 3)
    => /\ pc' = "line"
       /\ state'.tag # "ReadingTable"
       /\ output' = output \o state.source_header \o <<NL>> \o ThisLine \o <<NL>>

\* C10, as claimed: a line that is no separator row for the header makes no table,
\* and the header line and the line are written out
RejectedHeaderFallsBack == [][RejectedHeaderStep]_vars

----------------------------------------------------------------------------
(* What a rendered table is, in the words of the renderer's contract.      *)

\* what new has after old
Added(old, new) == SubSeq(new, Len(old) + 1, Len(new))

\* what stands between the pipes of a row, blanks included
RawCells(row) == SplitTerminator(Tail(row), <<Pipe>>)

\* the widest of the trimmed cells, and 1 at least
CanonicalWidth(cells) ==
    Max({1} \cup {StrWidth(Trim(cells[i])) : i \in 1..Len(cells)})

\* one space, the trimmed content, then one space or more up to width + 2 columns
IsPaddedCell(raw, cell, width) ==
    /\ StrWidth(raw) = width + 2
    /\ \E k \in 1..(width + 1) : raw = <<Space>> \o Trim(cell) \o Repeat(Space, k)

\* a border character, width dashes, a border character; the colons as the
\* alignment has them
IsBorderCell(raw, alignment, width) ==
    /\ Len(raw) = width + 2
    /\ raw[1] = (IF alignment \in {"Left", "Center"} THEN Colon ELSE Dash)
    /\ raw[Len(raw)] = (IF alignment \in {"Right", "Center"} THEN Colon ELSE Dash)
    /\ \A i \in 2..(Len(raw) - 1) : raw[i] = Dash

\* the row is a pipe, and for each column a cell and a pipe
IsRowOf(row, n) ==
    /\ StartsWith(row, Pipe) /\ EndsWith(row, Pipe)
    /\ Count(row, Pipe) = n + 1
    /\ Len(RawCells(row)) = n

\* the rows are the header, the separator and the body rows of the table, every
\* cell padded to its column's width, every row as wide as the others
CanonicalRows(rows, table) ==
    /\ Len(rows) = Len(table.columns[1].lines) + 1
    /\ \A r \in 1..Len(rows) :
          /\ IsRowOf(rows[r], Len(table.columns))
          /\ StrWidth(rows[r]) = StrWidth(rows[1])
    /\ \A c \in 1..Len(table.columns) :
          /\ IsBorderCell(RawCells(rows[2])[c], table.columns[c].alignment,
                          CanonicalWidth(table.columns[c].lines))
          /\ \A i \in 1..Len(table.columns[c].lines) :
                IsPaddedCell(RawCells(rows[IF i = 1 THEN 1 ELSE i + 1])[c],
                             table.columns[c].lines[i],
                             CanonicalWidth(table.columns[c].lines))

\* the text is the table in canonical form, each row ended by a newline
Canonical(text, table) ==
    /\ text = JoinLines(Lines(text))
    /\ CanonicalRows(Lines(text), table)

\* the rows of the text carry the fields of the source lines, the second row
\* standing for the separator line
RendersLines(text, src) ==
    /\ Len(Lines(text)) = Len(src)
    /\ \A i \in 1..Len(src) :
          IF i = 2
          THEN Len(Fields(Lines(text)[i])) = Len(Fields(Trim(src[1])))
          ELSE Fields(Lines(text)[i]) = Fields(Trim(src[i]))

(* C11  The flush at the end of the document.  The step after the last     *)
(* chunk ends the call and loses nothing: in RegularText it appends        *)
(* nothing, in CheckingHeader the header line as the document has it and a *)
(* newline, in ReadingTable the canonical rendering of the table, whose    *)
(* rows carry the fields of the header line and of every body row read;    *)
(* what was written before stays.                                          *)

FlushStep ==
    (pc = "chunk" /\ chunks = <<>> /\ pc' # pc) =>
        /\ pc' = "done"
        /\ SubSeq(result', 1, Len(result)) = result
        /\ state.tag = "RegularText" => result' = result
        /\ state.tag = "CheckingHeader" =>
               Added(result, result') = consumed[Len(consumed)] \o <<NL>>
        /\ state.tag = "ReadingTable" =>
               /\ Canonical(Added(result, result'), state.table)
               /\ RendersLines(Added(result, result'), TableLines(state))

\* C11: at the end of the document a buffered header line is written out as it is
\* and a buffered table is rendered in canonical form with every row read
EndOfInputFlush == [][FlushStep]_vars

\* C11, reached: a document that ends in a body row with no newline after it has
\* returned with its table rendered
OpenTableFlushed ==
    /\ pc = "done" /\ call = 1
    /\ state.tag = "ReadingTable"
    /\ Len(state.source_table) >= 3
    /\ ~EndsWith(content, NL)
    /\ content = JoinWith(state.source_table)
    /\ Canonical(result, state.table)

(* C12  Canonical rendering.  What write_output appends for a table is the *)
(* table in canonical form: a column is as wide as its widest trimmed      *)
(* cell, and 1 at least; a cell is one space, its trimmed content and      *)
(* spaces up to width + 2 columns, one at least; a separator cell is a     *)
(* border character, width dashes and a border character; all rows have    *)
(* the same display width and columns + 1 pipes.                           *)

\* C12: the rendering of every table read is in canonical form
CanonicalRendering ==
    state.tag = "ReadingTable" =>
        /\ ~write_output(state.table).fault
        /\ Canonical(write_output(state.table).text, state.table)

\* C12, reached: a table with a wide cell, an empty column and a body row with
\* blanks around its cells has been rendered
WideTableRendered ==
    /\ pc = "done" /\ call = 1
    /\ content = JoinWith(<<RowWide, RowSeparator, RowPadded>>)
    /\ result = <<Pipe, Space, WideA, Space, Pipe, Space, Space, Space, Space, Pipe, NL>>
                 \o <<Pipe, Colon, Dash, Dash, Colon, Pipe, Dash, Dash, Dash, Dash, Pipe, NL>>
                 \o <<Pipe, Space, "a", Space, Space, Pipe, Space, "b", "b", Space, Pipe, NL>>

(* C13  A separator cell with a character that is no dash.  The claim: a   *)
(* row after a header candidate with a cell that holds, between its        *)
(* leading ':' and its trailing ':' if it has them, a character other than *)
(* '-', makes no table, and the header line is written out as it is.       *)
(* Stated for the steps that do not panic.                                 *)

\* the cell without its leading ':' and its trailing ':'
BetweenMarkers(cell) ==
    SubSeq(cell,
           IF StartsWith(cell, Colon) THEN 2 ELSE 1,
           IF Len(cell) >= 2 /\ EndsWith(cell, Colon) THEN Len(cell) - 1 ELSE Len(cell))

HasNonDash(cell) == \E i \in 1..Len(BetweenMarkers(cell)) : BetweenMarkers(cell)[i] # Dash

NonDashStep ==
    (/\ AtLine /\ state.tag = "CheckingHeader" /\ pc' = "line"
     /\ IsPipeRow(Trim(ThisLine))
     /\ \E i \in 1..Len(Fields(Trim(ThisLine))) : HasNonDash(Fields(Trim(ThisLine))[i]))
    => /\ state'.tag = "RegularText"
       /\ output' = output \o state.source_header \o <<NL>> \o ThisLine \o <<NL>>

\* C13, as claimed: a row with a cell that holds a character other than '-' between
\* its markers makes no table, and the header line and the row are written out
NonDashRejected == [][NonDashStep]_vars

(* C14  The table model.  In every ReadingTable state the table has a      *)
(* column for each field of its header line, one at least; the columns     *)
(* hold the same number of cells, one at least; the buffered source lines  *)
(* are the header line, the separator line and the body lines read, in the *)
(* order of the document, one line more than a column has cells; a cell is *)
(* the field of its line.  A step from ReadingTable to ReadingTable keeps  *)
(* the columns and their alignments and adds one cell to each.             *)

TableShape ==
    state.tag = "ReadingTable" =>
        /\ Len(state.table.columns) >= 1
        /\ Len(state.table.columns) = Len(Fields(Trim(state.source_table[1])))
        /\ \A c \in 1..Len(state.table.columns) :
              /\ Len(state.table.columns[c].lines) >= 1
              /\ Len(state.table.columns[c].lines) = Len(state.table.columns[1].lines)
              /\ \A i \in 1..Len(state.table.columns[c].lines) :
                    state.table.columns[c].lines[i]
                        = Fields(Trim(state.source_table[IF i = 1 THEN 1 ELSE i + 1]))[c]
        /\ Len(state.source_table) = 2 + (Len(state.table.columns[1].lines) - 1)
        /\ state.source_table = TableLines(state)

TableGrowsStep ==
    (state.tag = "ReadingTable" /\ state'.tag = "ReadingTable" /\ state' # state) =>
        /\ Len(state'.table.columns) = Len(state.table.columns)
        /\ \A c \in 1..Len(state.table.columns) :
              /\ state'.table.columns[c].alignment = state.table.columns[c].alignment
              /\ Len(state'.table.columns[c].lines) = Len(state.table.columns[c].lines) + 1
        /\ state'.source_table = Append(state.source_table, ThisLine)

\* C14: a table being read has one column per header field, columns of equal
\* length, and as source lines the header, the separator and the body lines read
TableModelInvariants == []TableShape /\ [][TableGrowsStep]_vars

\* C14, reached: a table of two columns holds two body rows
TwoRowsRead ==
    /\ state.tag = "ReadingTable"
    /\ Len(state.table.columns) = 2
    /\ Len(state.source_table) = 4
    /\ Len(state.table.columns[2].lines) = 3

(* C15  A line that is no candidate ends a table by rendering it.  The     *)
(* claim: in ReadingTable a line that is not bounded by pipes once         *)
(* trimmed, or that yields no field, as a lone pipe does, makes the state  *)
(* RegularText and appends the table in canonical form and then the line.  *)
(* process_table takes a lone pipe for a row of the wrong field count.     *)

\* the text is the table in canonical form and then the line
EndsTable(text, line, table) ==
    /\ Len(text) >= Len(line) + 1
    /\ SubSeq(text, Len(text) - Len(line), Len(text)) = line \o <<NL>>
    /\ Canonical(SubSeq(text, 1, Len(text) - Len(line) - 1), table)

NonCandidateStep ==
    (AtLine /\ state.tag = "ReadingTable" /\ ~IsCandidate(ThisLine)) =>
        /\ pc' = "line"
        /\ state'.tag = "RegularText"
        /\ SubSeq(output', 1, Len(output)) = output
        /\ EndsTable(Added(output, output'), ThisLine, state.table)

\* C15, as claimed: in ReadingTable every line that is no candidate, a lone pipe
\* included, has the table rendered and is written out after it
NonCandidateRenders == [][NonCandidateStep]_vars

(* C16  The strict warning.  The claim: with strict set, a candidate line  *)
(* whose field count is not the column count of the table being read gives *)
(* one warning, and its number is 1 + the number of lines written so far   *)
(* for the whole document, fenced spans included; a line read without      *)
(* strict, or outside ReadingTable, or not bounded by pipes, or with the   *)
(* column count of the table, gives none.  Line 212 counts the newlines of *)
(* the chunk's output only.                                                *)

WarningStep ==
    AtLine =>
        /\ (strict /\ TableBrokenBy(ThisLine, state)) =>
               warnings' = Append(warnings, 1 + Count(result, NL) + Count(output, NL))
        /\ (\/ ~strict
            \/ state.tag # "ReadingTable"
            \/ ~IsPipeRow(Trim(ThisLine))
            \/ (state.tag = "ReadingTable"
                /\ Len(Fields(Trim(ThisLine))) = Len(state.table.columns))) =>
               warnings' = warnings

\* C16, as claimed: strict gives one warning for each table broken by its field
\* count, numbered by the lines written so far for the whole document, and no other
StrictWarningNumbered == [][WarningStep]_vars

(* C17  Document order across fences.  The claim: when a fenced span is    *)
(* appended to the result no header line and no table is still buffered,   *)
(* and in the returned text as many prose lines stand before each fenced   *)
(* span as in the document.  format_content hands the ParseState from one  *)
(* chunk to the next, over the fenced span between them.  Stated for the   *)
(* spans that have their closing fence.                                    *)

RECURSIVE LinesOfChunks(_, _)
\* the number of lines of the prose chunks (the odd ones) among the first n
LinesOfChunks(cs, n) ==
    IF n <= 0 THEN 0
    ELSE LinesOfChunks(cs, n - 1) + (IF n % 2 = 1 THEN Len(Lines(cs[n])) ELSE 0)

\* the number of prose lines of the text before its j-th chunk
ProseLinesBefore(text, j) == LinesOfChunks(Split(text, Fence), j - 1)

\* the step takes a span that has its closing fence
NothingBufferedAtFence ==
    (pc = "chunk" /\ ~is_in_code /\ Len(chunks) >= 2 /\ chunks' # chunks) =>
        state.tag = "RegularText"

SpansInPlace ==
    pc = "done" =>
        \A j \in MatchedSpans(content) :
            /\ j \in MatchedSpans(result)
            /\ ProseLinesBefore(result, j) = ProseLinesBefore(content, j)

\* C17, as claimed: a buffered header line or table is written out before the
\* fenced span that follows it, and no fenced span is returned ahead of prose
\* lines that precede it in the document
OrderPreservedAcrossFences == []SpansInPlace /\ [][NothingBufferedAtFence]_vars

(* C18  No table across a fenced span.  The claim: the first line of a     *)
(* prose chunk that follows a fenced span never confirms a header line     *)
(* buffered before the span and never adds a row to a table opened before  *)
(* it.                                                                     *)

\* the chunk format_chunk is in
CurrentChunk == Split(content, Fence)[Len(Split(content, Fence)) - Len(chunks)]

\* the line about to be taken is the first of its chunk
FirstOfChunk == AtLine /\ Len(lines) = Len(Lines(CurrentChunk))

AcrossFenceStep ==
    (FirstOfChunk /\ state.tag # "RegularText") => state'.tag # "ReadingTable"

\* C18, as claimed: no header line is confirmed and no table takes a row over a
\* fenced span
NoTableAcrossFence == [][AcrossFenceStep]_vars

(* C19  Line conservation.  While a call runs, the lines written so far,   *)
(* those of the fenced spans not counted, and the lines buffered in the    *)
(* parser state are as many as the lines fed to the state machine; when    *)
(* the call has returned every line fed has been written; and a document   *)
(* with no fence comes back as newline-ended lines, as many as it has.     *)

RECURSIVE NewlinesOfSpans(_, _)
\* the number of newlines in the fenced chunks (the even ones) among the first n
NewlinesOfSpans(cs, n) ==
    IF n <= 0 THEN 0
    ELSE NewlinesOfSpans(cs, n - 1) + (IF n % 2 = 0 THEN Count(cs[n], NL) ELSE 0)

\* the lines written so far by the state machine and the flush
EmittedLines ==
    Count(result, NL) + Count(output, NL)
    - NewlinesOfSpans(Split(content, Fence), Len(Split(content, Fence)) - Len(chunks))

\* the lines the parser state holds back
BufferedLines ==
    CASE state.tag = "RegularText" -> 0
      [] state.tag = "CheckingHeader" -> 1
      [] state.tag = "ReadingTable" -> Len(state.source_table)

\* C19: lines written plus lines buffered are the lines fed, and a document with no
\* fence is returned with the number of lines it has
LineConservation ==
    /\ pc \in {"chunk", "line"} => EmittedLines + BufferedLines = Len(consumed)
    /\ pc = "done" => EmittedLines = Len(consumed)
    /\ (pc = "done" /\ FenceCount(content) = 0) =>
           /\ result = JoinLines(Lines(result))
           /\ Len(Lines(result)) = Len(Lines(content))

\* C19, reached: a document of four lines with no fence has returned, its table of
\* one body row ended by its last line
FourLinesReturned ==
    /\ pc = "done" /\ call = 1
    /\ FenceCount(content) = 0
    /\ Len(Lines(content)) = 4 /\ Len(trace) = 4
    /\ trace[3].tag = "ReadingTable"
    /\ trace[4].tag = "RegularText"
    /\ Len(Lines(result)) = 4

(* C20  The renderer's preconditions.  Every table write_output can be     *)
(* called on has a column, every column a cell, every column a cell at     *)
(* each row index of the first column, and every cell at least one space   *)
(* of padding; write_output does not fault on it, and no step taken in     *)
(* ReadingTable panics.                                                    *)

\* the spaces pad_cell_content appends after the cell
Padding(cell, width) == width + 2 - (1 + StrWidth(Trim(cell)))

RendererReady ==
    state.tag = "ReadingTable" =>
        /\ Len(state.table.columns) >= 1
        /\ \A c \in 1..Len(state.table.columns) :
              /\ Len(state.table.columns[c].lines) >= 1
              /\ Len(state.table.columns[c].lines) >= Len(state.table.columns[1].lines)
              /\ \A i \in 1..Len(state.table.columns[c].lines) :
                    Padding(state.table.columns[c].lines[i],
                            widest(state.table.columns[c].lines)) >= 1
        /\ ~write_output(state.table).fault

RenderStep == state.tag = "ReadingTable" => pc' # "panicked"

\* C20: write_output is only called on tables it does not fault on
RendererPreconditions == []RendererReady /\ [][RenderStep]_vars

\* C20, reached: a line that is no row has ended a table with a wide cell and an
\* empty column, and the table has been rendered
TableRenderedByLine ==
    /\ pc = "line" /\ Len(trace) >= 2
    /\ state.tag = "RegularText"
    /\ trace[Len(trace) - 1].tag = "ReadingTable"
    /\ trace[Len(trace) - 1].table.columns[2].lines = <<<<>>>>
    /\ ~IsPipeRow(Trim(consumed[Len(consumed)]))
    /\ Canonical(SubSeq(output, 1, Len(output) - Len(consumed[Len(consumed)]) - 1),
                 trace[Len(trace) - 1].table)

============================================================================
